---- MODULE Spec2Model ----
(***************************************************************************)
(* Model of infrastructure/pulumi/__main__.py: one pass of the declaration  *)
(* script (one action per statement), and the provisioning engine creating  *)
(* the registered resources while the script runs.                          *)
(*                                                                          *)
(* Python strings are TLA+ strings (\o is concatenation, SubSeq a slice).   *)
(* A Python value given to json.dumps is a tagged tree (PyStr, PyInt,       *)
(* PyList, PyDict) and json.dumps is the serializer JsonDumps, so a policy  *)
(* document is the text the resource receives.                              *)
(***************************************************************************)
EXTENDS Integers, Sequences, FiniteSets, TLC

\* ------------------------------------------------------------------ bounds

\* How many of the sample prefixes / namespaces the configuration store may hold.
MaxPrefixes == 2
MaxNamespaces == 2

PrefixPool == <<"acme", "dev-x", "p3", "p4">>
NamespacePool == <<"apps", "team-a", "n3", "n4">>

Prefixes == {PrefixPool[i] : i \in 1..MaxPrefixes}
Namespaces == {NamespacePool[i] : i \in 1..MaxNamespaces}
Regions == {"us-east-1"}
Accounts == {"111122223333"}
Partitions == {"aws", "aws-cn"}
Stacks == {"dev"}
\* The issuer path of a cluster's identity provider, without its scheme.
IssuerHosts ==
    {"oidc.example.com/id/ABC",
     "oidc.eks.us-east-1.amazonaws.com/id/EXAMPLED539D4633E53DE1B716D3041E"}

\* ------------------------------------------------------- values and markers

Missing == "<missing>"         \* a configuration key that is not set
Unbound == "<unbound>"         \* a script variable not assigned yet
NoCluster == "<no-cluster>"    \* the cloud holds no cluster of that name
Unresolved == "<unresolved>"   \* an output of a resource not created yet
NoError == ""

KeyRegion == "aws:region"
KeyPrefix == "project:prefix"
KeyNamespace == "kubernetes:namespace"

VARIABLES
    config,              \* the configuration store: key -> value or Missing
    cloud,               \* what the provider answers: account, partition, stack, issuer
    pc,                  \* the statement the script is at
    region, prefix, namespace,
    current, partition,  \* get_caller_identity().account_id, get_partition().partition
    cluster,             \* the issuer of the GetClusterResult bound to `cluster`
    cluster_exists,
    assume_role_policy,
    resources,           \* logical name -> the registered declaration
    exported,            \* the names given to pulumi.export, in order
    log,                 \* the diagnostics emitted: <<level, message>>
    error,               \* the exception that ended the run, or NoError
    created,             \* the resources the engine has created
    live                 \* created resource -> its resolved properties

vars == <<config, cloud, pc, region, prefix, namespace, current, partition, cluster,
          cluster_exists, assume_role_policy, resources, exported, log, error,
          created, live>>

scriptVars == <<pc, region, prefix, namespace, current, partition, cluster,
                cluster_exists, assume_role_policy, resources, exported, log, error>>

\* ---------------------------------------------------------------- json.dumps

PyStr(s) == [t |-> "str", v |-> s]
PyInt(n) == [t |-> "int", v |-> n]
PyList(items) == [t |-> "list", v |-> items]
\* A dict literal: its <<key, value>> pairs in insertion order (keys distinct).
PyDict(pairs) == [t |-> "dict", v |-> pairs]

RECURSIVE JsonDumps(_), JsonItems(_, _), JsonPairs(_, _)
\* json.dumps with its default separators (", " and ": "); the strings of this
\* script hold no character that json escapes.
JsonDumps(x) ==
    CASE x.t = "str" -> "\"" \o x.v \o "\""
      [] x.t = "int" -> ToString(x.v)
      [] x.t = "list" -> "[" \o JsonItems(x.v, 1) \o "]"
      [] x.t = "dict" -> "{" \o JsonPairs(x.v, 1) \o "}"

JsonItems(items, i) ==
    IF i > Len(items) THEN ""
    ELSE JsonDumps(items[i])
         \o (IF i < Len(items) THEN ", " ELSE "")
         \o JsonItems(items, i + 1)

JsonPairs(pairs, i) ==
    IF i > Len(pairs) THEN ""
    ELSE "\"" \o pairs[i][1] \o "\": " \o JsonDumps(pairs[i][2])
         \o (IF i < Len(pairs) THEN ", " ELSE "")
         \o JsonPairs(pairs, i + 1)

RECURSIVE StrReplace(_, _, _)
\* str.replace(old, new): every non-overlapping occurrence, left to right.
StrReplace(s, old, new) ==
    IF Len(s) < Len(old) THEN s
    ELSE IF SubSeq(s, 1, Len(old)) = old
         THEN new \o StrReplace(SubSeq(s, Len(old) + 1, Len(s)), old, new)
         ELSE SubSeq(s, 1, 1) \o StrReplace(SubSeq(s, 2, Len(s)), old, new)

\* ------------------------------------------------------------ initial state

Init ==
    /\ config \in {c \in [{KeyRegion, KeyPrefix, KeyNamespace} ->
                            Regions \cup Prefixes \cup Namespaces \cup {Missing}] :
                     /\ c[KeyRegion] \in Regions \cup {Missing}
                     /\ c[KeyPrefix] \in Prefixes \cup {Missing}
                     /\ c[KeyNamespace] \in Namespaces \cup {Missing}}
    /\ cloud \in [account_id : Accounts, partition : Partitions, stack : Stacks,
                  issuer : {"https://" \o h : h \in IssuerHosts} \cup {NoCluster}]
    /\ pc = "region"
    /\ region = Unbound /\ prefix = Unbound /\ namespace = Unbound
    /\ current = Unbound /\ partition = Unbound
    /\ cluster = Unbound /\ cluster_exists = Unbound
    /\ assume_role_policy = Unbound
    /\ resources = <<>>
    /\ exported = <<>>
    /\ log = <<>>
    /\ error = NoError
    /\ created = {}
    /\ live = <<>>

\* ------------------------------------------------------ configuration intake

\* A require that hands back whatever the store holds, as Config.get does.
RequireNeverRaises(key) == FALSE

\* pulumi.Config(ns).require(key) raises ConfigMissingError when the key is unset.
RequireRaises(key) == config[key] = Missing

ConfigMissingError(key) == "ConfigMissingError: " \o key

Raise(e) ==
    /\ pc' = "aborted"
    /\ error' = e

\* region = aws_config.require("region")
RequireRegion ==
    /\ pc = "region"
    /\ IF RequireRaises(KeyRegion)
         THEN Raise(ConfigMissingError(KeyRegion)) /\ UNCHANGED region
         ELSE region' = config[KeyRegion] /\ pc' = "prefix" /\ UNCHANGED error
    /\ UNCHANGED <<config, cloud, prefix, namespace, current, partition, cluster,
                   cluster_exists, assume_role_policy, resources, exported, log,
                   created, live>>

\* prefix = project_config.require("prefix")
RequirePrefix ==
    /\ pc = "prefix"
    /\ IF RequireRaises(KeyPrefix)
         THEN Raise(ConfigMissingError(KeyPrefix)) /\ UNCHANGED prefix
         ELSE prefix' = config[KeyPrefix] /\ pc' = "namespace" /\ UNCHANGED error
    /\ UNCHANGED <<config, cloud, region, namespace, current, partition, cluster,
                   cluster_exists, assume_role_policy, resources, exported, log,
                   created, live>>

\* namespace = k8s_config.require("namespace")
RequireNamespace ==
    /\ pc = "namespace"
    /\ IF RequireRaises(KeyNamespace)
         THEN Raise(ConfigMissingError(KeyNamespace)) /\ UNCHANGED namespace
         ELSE namespace' = config[KeyNamespace] /\ pc' = "s3_bucket" /\ UNCHANGED error
    /\ UNCHANGED <<config, cloud, region, prefix, current, partition, cluster,
                   cluster_exists, assume_role_policy, resources, exported, log,
                   created, live>>

\* ------------------------------------------------------------ declarations

\* common_tags, applied to the tagged AWS resources
common_tags ==
    [Environment |-> cloud.stack, Project |-> prefix, ManagedBy |-> "Pulumi",
     GitOps |-> "true"]

NoTags == <<>>

\* A queue name that also takes the namespace.
queue_name_with_namespace == prefix \o "-" \o namespace \o "-processing-queue"

bucket_name == prefix \o "-data-bucket"
queue_name == prefix \o "-processing-queue"
cluster_name == prefix \o "-cluster"

\* The namespaced objects declared without their ResourceOptions.
DependsOnNothing == {}

\* depends_on=[...] of a declaration's ResourceOptions
NoDependsOn == {}
DependsOnNamespace == {"k8s_namespace"}

\* The redrive policy written from the queue's name instead of dlq.arn: the
\* primary queue consumes no output.
ConsumesOfWithoutDlqArn(r) ==
    CASE r \in {"s3_versioning", "s3_encryption", "s3_public_access_block",
                 "s3_access_policy"} -> {"s3_bucket"}
      [] r = "sqs_access_policy" -> {"sqs_queue", "dlq"}
      [] r = "s3_policy_attachment" -> {"service_account_role", "s3_access_policy"}
      [] r = "sqs_policy_attachment" -> {"service_account_role", "sqs_access_policy"}
      [] r = "service_account" -> {"service_account_role"}
      [] r = "config_map" -> {"s3_bucket", "sqs_queue", "dlq"}
      [] OTHER -> {}

\* The declarations whose outputs feed an input of the declaration (Output
\* values: .arn, .id, .name, .url, .bucket), by the variable that holds them.
ConsumesOf(r) ==
    CASE r \in {"s3_versioning", "s3_encryption", "s3_public_access_block",
                 "s3_access_policy"} -> {"s3_bucket"}
      [] r = "sqs_queue" -> {"dlq"}
      [] r = "sqs_access_policy" -> {"sqs_queue", "dlq"}
      [] r = "s3_policy_attachment" -> {"service_account_role", "s3_access_policy"}
      [] r = "sqs_policy_attachment" -> {"service_account_role", "sqs_access_policy"}
      [] r = "service_account" -> {"service_account_role"}
      [] r = "config_map" -> {"s3_bucket", "sqs_queue", "dlq"}
      [] OTHER -> {}

\* A resource constructor call: the declaration is registered with the engine
\* under the variable it is bound to, and the script moves on.
Declare(at, next, rec) ==
    /\ pc = at
    /\ resources' = resources @@ (at :> rec)
    /\ pc' = next
    /\ UNCHANGED <<config, cloud, region, prefix, namespace, current, partition,
                   cluster, cluster_exists, assume_role_policy, exported, log,
                   error, created, live>>

Resource(type, name, tags, depends_on, consumes, args) ==
    [type |-> type, name |-> name, tags |-> tags, depends_on |-> depends_on,
     consumes |-> consumes, args |-> args]

S3Bucket ==
    Declare("s3_bucket", "s3_versioning",
            Resource("aws.s3.Bucket", bucket_name, common_tags, NoDependsOn,
                     ConsumesOf("s3_bucket"), [bucket |-> bucket_name]))

S3Versioning ==
    Declare("s3_versioning", "s3_encryption",
            Resource("aws.s3.BucketVersioningV2", "", NoTags, NoDependsOn,
                     ConsumesOf("s3_versioning"), [status |-> "Enabled"]))

S3Encryption ==
    Declare("s3_encryption", "s3_public_access_block",
            Resource("aws.s3.BucketServerSideEncryptionConfigurationV2", "", NoTags,
                     NoDependsOn, ConsumesOf("s3_encryption"),
                     [sse_algorithm |-> "AES256"]))

S3PublicAccessBlock ==
    Declare("s3_public_access_block", "s3_access_policy",
            Resource("aws.s3.BucketPublicAccessBlock", "", NoTags, NoDependsOn,
                     ConsumesOf("s3_public_access_block"),
                     [block_public_acls |-> TRUE, block_public_policy |-> TRUE,
                      ignore_public_acls |-> TRUE, restrict_public_buckets |-> TRUE]))

S3AccessPolicy ==
    Declare("s3_access_policy", "dlq",
            Resource("aws.iam.Policy", bucket_name \o "-access-policy", common_tags,
                     NoDependsOn, ConsumesOf("s3_access_policy"),
                     [description |-> "Policy for accessing S3 bucket " \o bucket_name]))

Dlq ==
    Declare("dlq", "sqs_queue",
            Resource("aws.sqs.Queue", queue_name \o "-dlq", common_tags, NoDependsOn,
                     ConsumesOf("dlq"), <<>>))

SqsQueue ==
    Declare("sqs_queue", "sqs_access_policy",
            Resource("aws.sqs.Queue", queue_name, common_tags, NoDependsOn,
                     ConsumesOf("sqs_queue"),
                     [delay_seconds |-> 0, max_message_size |-> 262144,
                      message_retention_seconds |-> 345600,
                      visibility_timeout_seconds |-> 30,
                      receive_wait_time_seconds |-> 0]))

SqsAccessPolicy ==
    Declare("sqs_access_policy", "current",
            Resource("aws.iam.Policy", queue_name \o "-access-policy", common_tags,
                     NoDependsOn, ConsumesOf("sqs_access_policy"),
                     [description |-> "Policy for accessing SQS queue " \o queue_name]))

\* ------------------------------------------------- the deferred policy texts

maxReceiveCount == 3

\* The storage policy scoped to the objects only, the bucket's own ARN left out.
s3_policy_lambda_objects_only(arn) ==
    JsonDumps(PyDict(<<
        <<"Version", PyStr("2012-10-17")>>,
        <<"Statement", PyList(<<PyDict(<<
            <<"Effect", PyStr("Allow")>>,
            <<"Action", PyList(<<PyStr("s3:GetObject"), PyStr("s3:PutObject"),
                                 PyStr("s3:DeleteObject"), PyStr("s3:ListBucket")>>)>>,
            <<"Resource", PyList(<<PyStr(arn \o "/*")>>)>> >>)>>)>> >>))

\* lambda arn: json.dumps({...}) given to s3_bucket.arn.apply
s3_policy_lambda(arn) ==
    JsonDumps(PyDict(<<
        <<"Version", PyStr("2012-10-17")>>,
        <<"Statement", PyList(<<PyDict(<<
            <<"Effect", PyStr("Allow")>>,
            <<"Action", PyList(<<PyStr("s3:GetObject"), PyStr("s3:PutObject"),
                                 PyStr("s3:DeleteObject"), PyStr("s3:ListBucket")>>)>>,
            <<"Resource", PyList(<<PyStr(arn), PyStr(arn \o "/*")>>)>> >>)>>)>> >>))

\* The receive count written as a string.
redrive_policy_lambda_string_count(dlq_arn) ==
    JsonDumps(PyDict(<<
        <<"deadLetterTargetArn", PyStr(dlq_arn)>>,
        <<"maxReceiveCount", PyStr(ToString(maxReceiveCount))>> >>))

\* lambda dlq_arn: json.dumps({...}) given to dlq.arn.apply
redrive_policy_lambda(dlq_arn) ==
    JsonDumps(PyDict(<<
        <<"deadLetterTargetArn", PyStr(dlq_arn)>>,
        <<"maxReceiveCount", PyInt(maxReceiveCount)>> >>))

\* lambda arns: json.dumps({...}) given to Output.all(sqs_queue.arn, dlq.arn).apply
sqs_policy_lambda(arns) ==
    JsonDumps(PyDict(<<
        <<"Version", PyStr("2012-10-17")>>,
        <<"Statement", PyList(<<PyDict(<<
            <<"Effect", PyStr("Allow")>>,
            <<"Action", PyList(<<PyStr("sqs:SendMessage"), PyStr("sqs:ReceiveMessage"),
                                 PyStr("sqs:DeleteMessage"),
                                 PyStr("sqs:GetQueueAttributes"),
                                 PyStr("sqs:GetQueueUrl")>>)>>,
            <<"Resource", PyList([i \in 1..Len(arns) |-> PyStr(arns[i])])>> >>)>>)>> >>))

\* ---------------------------------------------------------------- IRSA

PyTrue == "True"
PyFalse == "False"

\* current = aws.get_caller_identity()
GetCallerIdentity ==
    /\ pc = "current"
    /\ current' = [account_id |-> cloud.account_id]
    /\ pc' = "partition"
    /\ UNCHANGED <<config, cloud, region, prefix, namespace, partition, cluster,
                   cluster_exists, assume_role_policy, resources, exported, log,
                   error, created, live>>

\* partition = aws.get_partition()
GetPartition ==
    /\ pc = "partition"
    /\ partition' = [partition |-> cloud.partition]
    /\ pc' = "cluster"
    /\ UNCHANGED <<config, cloud, region, prefix, namespace, current, cluster,
                   cluster_exists, assume_role_policy, resources, exported, log,
                   error, created, live>>

\* aws.eks.get_cluster(name=cluster_name) raises when the cloud has no such cluster.
GetClusterRaises == cloud.issuer = NoCluster

\* What aws.eks.get_cluster returns: the direct form of the invoke gives the
\* GetClusterResult itself, a plain object holding the cluster's properties. It is
\* not a pulumi.Output (that is what get_cluster_output returns), so its attributes
\* are the result's fields and nothing else.
GetClusterResult ==
    [attrs |-> {"arn", "identities", "name", "status", "tags", "version"},
     identities |-> <<[oidcs |-> <<[issuer |-> cloud.issuer]>>]>>]

ClusterNotFoundWarning ==
    <<"warning", "EKS cluster '" \o cluster_name \o "' not found. IRSA will be "
                 \o "configured but may not work until cluster exists.">>

\* try: cluster = aws.eks.get_cluster(...); cluster_exists = True
\* except: cluster_exists = False; pulumi.log.warn(...)
GetCluster ==
    /\ pc = "cluster"
    /\ IF GetClusterRaises
         THEN /\ cluster_exists' = PyFalse
              /\ log' = Append(log, ClusterNotFoundWarning)
              /\ UNCHANGED cluster
         ELSE /\ cluster' = GetClusterResult
              /\ cluster_exists' = PyTrue
              /\ UNCHANGED log
    /\ pc' = "assume_role_policy"
    /\ UNCHANGED <<config, cloud, region, prefix, namespace, current, partition,
                   assume_role_policy, resources, exported, error, created, live>>

\* The basic trust with the bare prefix as its external id.
create_assume_role_policy_basic_bare_id ==
    JsonDumps(PyDict(<<
        <<"Version", PyStr("2012-10-17")>>,
        <<"Statement", PyList(<<PyDict(<<
            <<"Effect", PyStr("Allow")>>,
            <<"Principal", PyDict(<<
                <<"AWS", PyStr("arn:" \o partition.partition \o ":iam::"
                               \o current.account_id \o ":root")>> >>)>>,
            <<"Action", PyStr("sts:AssumeRole")>>,
            <<"Condition", PyDict(<<
                <<"StringEquals", PyDict(<<
                    <<"sts:ExternalId", PyStr(prefix)>> >>)>> >>)>>
        >>)>>)>> >>))

create_assume_role_policy_basic ==
    JsonDumps(PyDict(<<
        <<"Version", PyStr("2012-10-17")>>,
        <<"Statement", PyList(<<PyDict(<<
            <<"Effect", PyStr("Allow")>>,
            <<"Principal", PyDict(<<
                <<"AWS", PyStr("arn:" \o partition.partition \o ":iam::"
                               \o current.account_id \o ":root")>> >>)>>,
            <<"Action", PyStr("sts:AssumeRole")>>,
            <<"Condition", PyDict(<<
                <<"StringEquals", PyDict(<<
                    <<"sts:ExternalId", PyStr(prefix \o "-external-id")>> >>)>> >>)>>
        >>)>>)>> >>))

create_assume_role_policy_irsa(cluster_data) ==
    LET oidc_url == cluster_data.identities[1].oidcs[1].issuer
        oidc_arn == "arn:" \o partition.partition \o ":iam::" \o current.account_id
                    \o ":oidc-provider/" \o StrReplace(oidc_url, "https://", "")
    IN  JsonDumps(PyDict(<<
            <<"Version", PyStr("2012-10-17")>>,
            <<"Statement", PyList(<<PyDict(<<
                <<"Effect", PyStr("Allow")>>,
                <<"Principal", PyDict(<< <<"Federated", PyStr(oidc_arn)>> >>)>>,
                <<"Action", PyStr("sts:AssumeRoleWithWebIdentity")>>,
                <<"Condition", PyDict(<<
                    <<"StringEquals", PyDict(<<
                        <<StrReplace(oidc_url, "https://", "") \o ":sub",
                          PyStr("system:serviceaccount:" \o namespace \o ":"
                                \o prefix \o "-service-account")>>,
                        <<StrReplace(oidc_url, "https://", "") \o ":aud",
                          PyStr("sts.amazonaws.com")>> >>)>> >>)>>
            >>)>>)>> >>))

AttributeError(attr) ==
    "AttributeError: 'AwaitableGetClusterResult' object has no attribute '"
    \o attr \o "'"

\* if cluster_exists: assume_role_policy = cluster.apply(create_assume_role_policy_irsa)
\* else:              assume_role_policy = create_assume_role_policy_basic()
\* `cluster.apply` is an attribute lookup on the object get_cluster returned.
AssumeRolePolicy ==
    /\ pc = "assume_role_policy"
    /\ IF cluster_exists = PyTrue
         THEN IF "apply" \in cluster.attrs
                THEN /\ assume_role_policy' = create_assume_role_policy_irsa(cluster)
                     /\ pc' = "service_account_role"
                     /\ UNCHANGED error
                ELSE /\ Raise(AttributeError("apply"))
                     /\ UNCHANGED assume_role_policy
         ELSE /\ assume_role_policy' = create_assume_role_policy_basic
              /\ pc' = "service_account_role"
              /\ UNCHANGED error
    /\ UNCHANGED <<config, cloud, region, prefix, namespace, current, partition,
                   cluster, cluster_exists, resources, exported, log, created, live>>

ServiceAccountRole ==
    Declare("service_account_role", "s3_policy_attachment",
            Resource("aws.iam.Role", prefix \o "-k8s-service-role", common_tags,
                     NoDependsOn, ConsumesOf("service_account_role"),
                     [assume_role_policy |-> assume_role_policy]))

S3PolicyAttachment ==
    Declare("s3_policy_attachment", "sqs_policy_attachment",
            Resource("aws.iam.RolePolicyAttachment", "", NoTags, NoDependsOn,
                     ConsumesOf("s3_policy_attachment"), <<>>))

SqsPolicyAttachment ==
    Declare("sqs_policy_attachment", "k8s_namespace",
            Resource("aws.iam.RolePolicyAttachment", "", NoTags, NoDependsOn,
                     ConsumesOf("sqs_policy_attachment"), <<>>))

\* ---------------------------------------------------------- Kubernetes objects

K8sNamespace ==
    Declare("k8s_namespace", "service_account",
            Resource("k8s.core.v1.Namespace", namespace, NoTags, NoDependsOn,
                     ConsumesOf("k8s_namespace"),
                     [labels |-> [name |-> namespace, managed_by |-> "Pulumi",
                                  environment |-> cloud.stack]]))

ServiceAccount ==
    Declare("service_account", "config_map",
            Resource("k8s.core.v1.ServiceAccount", prefix \o "-service-account",
                     NoTags, DependsOnNamespace, ConsumesOf("service_account"),
                     [namespace |-> namespace,
                      labels |-> [name |-> prefix \o "-service-account",
                                  managed_by |-> "Pulumi",
                                  environment |-> cloud.stack]]))

ConfigMap ==
    Declare("config_map", "export",
            Resource("k8s.core.v1.ConfigMap", prefix \o "-aws-resources", NoTags,
                     DependsOnNamespace, ConsumesOf("config_map"),
                     [namespace |-> namespace,
                      labels |-> [name |-> prefix \o "-config",
                                  managed_by |-> "Pulumi",
                                  environment |-> cloud.stack],
                      AWS_REGION |-> region, AWS_DEFAULT_REGION |-> region]))

\* --------------------------------------------------------------------- outputs

ExportNames ==
    <<"bucket_name", "bucket_arn", "bucket_domain_name", "queue_url", "queue_arn",
      "queue_name", "dlq_url", "dlq_arn", "service_account_role_arn",
      "service_account_role_name", "kubernetes_namespace",
      "kubernetes_service_account_name", "s3_access_policy_arn",
      "sqs_access_policy_arn", "config">>

\* the pulumi.export calls, which end the script
Export ==
    /\ pc = "export"
    /\ exported' = exported \o ExportNames
    /\ pc' = "done"
    /\ UNCHANGED <<config, cloud, region, prefix, namespace, current, partition,
                   cluster, cluster_exists, assume_role_policy, resources, log,
                   error, created, live>>

\* ---------------------------------------------------------------- the engine

ResourceNames ==
    {"s3_bucket", "s3_versioning", "s3_encryption", "s3_public_access_block",
     "s3_access_policy", "dlq", "sqs_queue", "sqs_access_policy",
     "service_account_role", "s3_policy_attachment", "sqs_policy_attachment",
     "k8s_namespace", "service_account", "config_map"}

\* An Output of resource r (s3_bucket.arn, dlq.url, ...): known once r is created.
Out(r, f) == IF r \in created THEN live[r][f] ELSE Unresolved

\* The identifiers the provider gives a created resource.
ProviderArn(r) ==
    LET d == resources[r]
        iam == "arn:" \o cloud.partition \o ":iam::" \o cloud.account_id
    IN  CASE d.type = "aws.s3.Bucket" -> "arn:" \o cloud.partition \o ":s3:::" \o d.name
          [] d.type = "aws.sqs.Queue" ->
                "arn:" \o cloud.partition \o ":sqs:" \o config[KeyRegion] \o ":"
                \o cloud.account_id \o ":" \o d.name
          [] d.type = "aws.iam.Policy" -> iam \o ":policy/" \o d.name
          [] d.type = "aws.iam.Role" -> iam \o ":role/" \o d.name
          [] OTHER -> ""

ProviderUrl(r) ==
    LET d == resources[r]
    IN  IF d.type = "aws.sqs.Queue"
        THEN "https://sqs." \o config[KeyRegion] \o ".amazonaws.com/"
             \o cloud.account_id \o "/" \o d.name
        ELSE ""

\* The document input of r, its deferred part applied to the outputs it waits for.
ResolvedDoc(r) ==
    CASE r = "s3_access_policy" -> s3_policy_lambda(Out("s3_bucket", "arn"))
      [] r = "sqs_queue" -> redrive_policy_lambda(Out("dlq", "arn"))
      [] r = "sqs_access_policy" ->
            sqs_policy_lambda(<<Out("sqs_queue", "arn"), Out("dlq", "arn")>>)
      [] r = "service_account_role" -> resources[r].args.assume_role_policy
      [] OTHER -> ""

\* The inputs of r that are another resource's output, as named fields.
ResolvedRefs(r) ==
    CASE r \in {"s3_versioning", "s3_encryption", "s3_public_access_block"} ->
            [bucket |-> Out("s3_bucket", "name")]
      [] r = "s3_policy_attachment" ->
            [role |-> Out("service_account_role", "name"),
             policy_arn |-> Out("s3_access_policy", "arn")]
      [] r = "sqs_policy_attachment" ->
            [role |-> Out("service_account_role", "name"),
             policy_arn |-> Out("sqs_access_policy", "arn")]
      [] r = "service_account" ->
            [role_arn |-> Out("service_account_role", "arn")]
      [] r = "config_map" ->
            [S3_BUCKET_NAME |-> Out("s3_bucket", "name"),
             SQS_QUEUE_URL |-> Out("sqs_queue", "url"),
             SQS_QUEUE_NAME |-> Out("sqs_queue", "name"),
             SQS_DLQ_URL |-> Out("dlq", "url")]
      [] OTHER -> <<>>

Resolve(r) ==
    [arn |-> ProviderArn(r), url |-> ProviderUrl(r), name |-> resources[r].name,
     doc |-> ResolvedDoc(r), refs |-> ResolvedRefs(r)]

\* What the engine waits for before it creates r: the explicit hints and the
\* resources whose outputs r consumes.
EngineDeps(r) == resources[r].depends_on \cup resources[r].consumes

\* What an engine honouring nothing but depends_on would wait for.
HintDeps(r) == resources[r].depends_on

CreateAfter(r, deps, props) ==
    /\ r \in DOMAIN resources
    /\ r \notin created
    /\ deps \subseteq created
    /\ created' = created \cup {r}
    /\ live' = live @@ (r :> props)
    /\ UNCHANGED <<config, cloud>>
    /\ UNCHANGED scriptVars

\* The engine creates a registered resource whose dependencies exist.
Create == \E r \in ResourceNames : CreateAfter(r, EngineDeps(r), Resolve(r))

\* The hints-only engine is followed for the order of creation alone: it has no
\* rule for an input whose source does not exist yet, so no input is recorded.
CreateByHints ==
    \E r \in ResourceNames :
        CreateAfter(r, HintDeps(r), [Resolve(r) EXCEPT !.doc = "", !.refs = <<>>])

Script ==
    \/ RequireRegion
    \/ RequirePrefix
    \/ RequireNamespace
    \/ S3Bucket
    \/ S3Versioning
    \/ S3Encryption
    \/ S3PublicAccessBlock
    \/ S3AccessPolicy
    \/ Dlq
    \/ SqsQueue
    \/ SqsAccessPolicy
    \/ GetCallerIdentity
    \/ GetPartition
    \/ GetCluster
    \/ AssumeRolePolicy
    \/ ServiceAccountRole
    \/ S3PolicyAttachment
    \/ SqsPolicyAttachment
    \/ K8sNamespace
    \/ ServiceAccount
    \/ ConfigMap
    \/ Export

Next == Script \/ Create

Spec == Init /\ [][Next]_vars

\* The same script under an engine that orders creation by depends_on alone.
NextHints == Script \/ CreateByHints

\* The order of creation does not depend on the partition or the namespace, so
\* the hints-only engine is followed for one of each.
InitHints ==
    /\ Init
    /\ cloud.partition = "aws"
    /\ config[KeyNamespace] \in {Missing, NamespacePool[1]}

SpecHints == InitHints /\ [][NextHints]_vars

\* ================================================================== claims

RequiredKeys == {KeyRegion, KeyPrefix, KeyNamespace}
ConfigComplete == \A k \in RequiredKeys : config[k] # Missing
Ended == pc \in {"done", "aborted"}
Declared(r) == r \in DOMAIN resources
LookupFailed == cluster_exists = PyFalse
LookupSucceeded == cluster_exists = PyTrue

\* The script variable a required key is read into.
BoundTo(k) ==
    CASE k = KeyRegion -> region
      [] k = KeyPrefix -> prefix
      [] k = KeyNamespace -> namespace

\* C1: when one of aws:region, project:prefix, kubernetes:namespace is absent, the
\* run never gets past the three reads: nothing is declared, created or exported,
\* the cluster is not looked up, no diagnostic is written, the variable of the
\* absent key is never bound (no default), and once the run has stopped it has
\* stopped with the missing-configuration error of an absent key.
C1_MissingConfigAborts ==
    \A k \in RequiredKeys :
        config[k] = Missing =>
            /\ DOMAIN resources = {}
            /\ created = {}
            /\ exported = <<>>
            /\ cluster_exists = Unbound
            /\ log = <<>>
            /\ BoundTo(k) = Unbound
            /\ pc \in {"region", "prefix", "namespace", "aborted"}
            /\ pc = "aborted" =>
                  \E m \in RequiredKeys :
                      /\ config[m] = Missing
                      /\ error = "ConfigMissingError: " \o m

\* A run whose only absent key is the last one read has aborted on it.
C1_Witness ==
    /\ pc = "aborted"
    /\ config[KeyRegion] # Missing
    /\ config[KeyPrefix] # Missing
    /\ config[KeyNamespace] = Missing
    /\ error = "ConfigMissingError: kubernetes:namespace"

BasicTrustText ==
    "{\"Version\": \"2012-10-17\", \"Statement\": [{\"Effect\": \"Allow\", "
    \o "\"Principal\": {\"AWS\": \"arn:" \o cloud.partition \o ":iam::"
    \o cloud.account_id \o ":root\"}, \"Action\": \"sts:AssumeRole\", "
    \o "\"Condition\": {\"StringEquals\": {\"sts:ExternalId\": \""
    \o config[KeyPrefix] \o "-external-id\"}}}]}"

\* C2: when the lookup of '{prefix}-cluster' fails, the run that ends has declared
\* service_account_role, and the trust document the role is declared (and created)
\* with is the one-statement document whose only principal is AWS =
\* arn:{partition}:iam::{account_id}:root, whose action is sts:AssumeRole and whose
\* only condition is StringEquals sts:ExternalId = '{prefix}-external-id'; it has no
\* Federated principal.
C2_BasicTrustOnFailure ==
    LookupFailed =>
        /\ pc = "done" => Declared("service_account_role")
        /\ Declared("service_account_role") =>
              resources["service_account_role"].args.assume_role_policy = BasicTrustText
        /\ "service_account_role" \in created =>
              live["service_account_role"].doc = BasicTrustText

C2_Witness ==
    /\ LookupFailed
    /\ "service_account_role" \in created
    /\ cloud.partition = "aws-cn"
    /\ config[KeyPrefix] = PrefixPool[2]

FederatedTrustText(h) ==
    "{\"Version\": \"2012-10-17\", \"Statement\": [{\"Effect\": \"Allow\", "
    \o "\"Principal\": {\"Federated\": \"arn:" \o cloud.partition \o ":iam::"
    \o cloud.account_id \o ":oidc-provider/" \o h \o "\"}, "
    \o "\"Action\": \"sts:AssumeRoleWithWebIdentity\", "
    \o "\"Condition\": {\"StringEquals\": {\"" \o h \o ":sub\": "
    \o "\"system:serviceaccount:" \o config[KeyNamespace] \o ":"
    \o config[KeyPrefix] \o "-service-account\", \"" \o h \o ":aud\": "
    \o "\"sts.amazonaws.com\"}}}]}"

\* What create_assume_role_policy_irsa returns for the result of a successful
\* lookup, in the states that hold one: the federated document of issuer H.
IrsaCallbackDocument ==
    \A h \in IssuerHosts :
        (LookupSucceeded /\ cloud.issuer = "https://" \o h) =>
            create_assume_role_policy_irsa(cluster) = FederatedTrustText(h)

\* C3: when the lookup succeeds with issuer 'https://' + H, the run reaches the
\* role declaration, and the role's trust document has the Federated principal
\* arn:{partition}:iam::{account_id}:oidc-provider/H, the action
\* sts:AssumeRoleWithWebIdentity and the two StringEquals keys H:sub and H:aud.
C3_FederatedTrustOnSuccess ==
    \A h \in IssuerHosts :
        (ConfigComplete /\ cloud.issuer = "https://" \o h /\ Ended) =>
            /\ Declared("service_account_role")
            /\ resources["service_account_role"].args.assume_role_policy
                  = FederatedTrustText(h)

\* C4: whatever the outcome of the lookup, a run with its configuration complete
\* runs to the end of the script, declares all the resources and exports all the
\* outputs; it has written one warning when the lookup failed and none when it
\* succeeded.
C4_LookupOutcomeChangesOnlyTrust ==
    (ConfigComplete /\ Ended) =>
        /\ pc = "done"
        /\ DOMAIN resources = ResourceNames
        /\ exported = ExportNames
        /\ Len(log) = (IF cloud.issuer = NoCluster THEN 1 ELSE 0)
        /\ \A i \in 1..Len(log) : log[i][1] = "warning"

\* The half of C4 about the failed lookup alone: it is caught, one warning is
\* written, and the run ends having declared and exported everything.
FailedLookupRunCompletes ==
    (ConfigComplete /\ cloud.issuer = NoCluster /\ Ended) =>
        /\ pc = "done"
        /\ error = NoError
        /\ DOMAIN resources = ResourceNames
        /\ exported = ExportNames
        /\ log = <<ClusterNotFoundWarning>>

\* C5: the redrive policy the primary queue is created with is the document with
\* exactly the two fields deadLetterTargetArn, the ARN of the created dead-letter
\* queue of this script, and maxReceiveCount, 3, for every configuration.
C5_RedrivePolicy ==
    "sqs_queue" \in created =>
        /\ "dlq" \in created
        /\ resources["dlq"].name = config[KeyPrefix] \o "-processing-queue-dlq"
        /\ live["sqs_queue"].doc =
              "{\"deadLetterTargetArn\": \"" \o live["dlq"].arn
              \o "\", \"maxReceiveCount\": 3}"

C5_Witness ==
    /\ "sqs_queue" \in created
    /\ config[KeyPrefix] = PrefixPool[2]
    /\ live["dlq"].arn = "arn:aws-cn:sqs:us-east-1:111122223333:dev-x-processing-queue-dlq"

\* C6: the storage access policy is created as one Allow statement whose Action
\* list is s3:GetObject, s3:PutObject, s3:DeleteObject, s3:ListBucket and whose
\* Resource list is the ARN A of the created bucket of this script, then A + '/*',
\* and nothing else.
C6_StorageAccessPolicy ==
    "s3_access_policy" \in created =>
        /\ "s3_bucket" \in created
        /\ live["s3_access_policy"].doc =
              "{\"Version\": \"2012-10-17\", \"Statement\": [{\"Effect\": \"Allow\", "
              \o "\"Action\": [\"s3:GetObject\", \"s3:PutObject\", "
              \o "\"s3:DeleteObject\", \"s3:ListBucket\"], \"Resource\": [\""
              \o live["s3_bucket"].arn \o "\", \"" \o live["s3_bucket"].arn
              \o "/*\"]}]}"

C6_Witness ==
    /\ "s3_access_policy" \in created
    /\ live["s3_bucket"].arn = "arn:aws:s3:::acme-data-bucket"

Before(a, b) == b \in created => a \in created

\* C8 as stated: under an engine that orders creation by the explicit hints
\* alone, every listed ordering holds.
C8_AllOrderingsByHints ==
    /\ Before("k8s_namespace", "service_account")
    /\ Before("k8s_namespace", "config_map")
    /\ Before("dlq", "sqs_queue")
    /\ Before("s3_bucket", "s3_access_policy")
    /\ Before("sqs_queue", "sqs_access_policy")
    /\ Before("dlq", "sqs_access_policy")
    /\ Before("service_account_role", "s3_policy_attachment")
    /\ Before("service_account_role", "sqs_policy_attachment")

\* C8 as amended: the explicit hints are depends_on=[k8s_namespace] on the service
\* account and on the config map and nothing else, and under an engine that
\* orders creation by the explicit hints alone the namespace is created before
\* the service account and before the config map.
C8_NamespaceOrderingByHints ==
    /\ \A r \in DOMAIN resources :
          resources[r].depends_on =
              (IF r \in {"service_account", "config_map"}
                 THEN {"k8s_namespace"} ELSE {})
    /\ Before("k8s_namespace", "service_account")
    /\ Before("k8s_namespace", "config_map")

\* Both namespaced objects exist, in a schedule only the hints-only engine has:
\* the primary queue exists and its dead-letter queue does not.
C8_Witness ==
    /\ "service_account" \in created
    /\ "config_map" \in created
    /\ "sqs_queue" \in created
    /\ "dlq" \notin created

\* C9: under the engine, which waits for the explicit hints and for the sources
\* of the outputs a declaration consumes, a resource is created only after the
\* resources it references, and with their identifiers.
C9_CreatedAfterReferenced ==
    /\ Before("dlq", "sqs_queue")
    /\ Before("s3_bucket", "s3_access_policy")
    /\ Before("sqs_queue", "sqs_access_policy")
    /\ Before("dlq", "sqs_access_policy")
    /\ Before("service_account_role", "s3_policy_attachment")
    /\ Before("s3_access_policy", "s3_policy_attachment")
    /\ Before("service_account_role", "sqs_policy_attachment")
    /\ Before("sqs_access_policy", "sqs_policy_attachment")
    /\ Before("service_account_role", "service_account")
    /\ "s3_policy_attachment" \in created =>
          live["s3_policy_attachment"].refs
              = [role |-> live["service_account_role"].name,
                 policy_arn |-> live["s3_access_policy"].arn]
    /\ "sqs_policy_attachment" \in created =>
          live["sqs_policy_attachment"].refs
              = [role |-> live["service_account_role"].name,
                 policy_arn |-> live["sqs_access_policy"].arn]
    /\ "service_account" \in created =>
          live["service_account"].refs.role_arn = live["service_account_role"].arn
    /\ "sqs_access_policy" \in created =>
          live["sqs_access_policy"].doc =
              "{\"Version\": \"2012-10-17\", \"Statement\": [{\"Effect\": \"Allow\", "
              \o "\"Action\": [\"sqs:SendMessage\", \"sqs:ReceiveMessage\", "
              \o "\"sqs:DeleteMessage\", \"sqs:GetQueueAttributes\", "
              \o "\"sqs:GetQueueUrl\"], \"Resource\": [\"" \o live["sqs_queue"].arn
              \o "\", \"" \o live["dlq"].arn \o "\"]}]}"

C9_Witness == created = ResourceNames

\* C10: a run that found the cluster, and so chose the federated trust, ends
\* having declared the role with a ':sub' condition equal to
\* 'system:serviceaccount:' + N + ':' + S, N the namespace of the declared service
\* account and the name of the declared namespace, S the declared service
\* account's name, prefix + '-service-account'; the service account is created
\* with the annotation eks.amazonaws.com/role-arn equal to that role's ARN.
C10_FederatedSubjectIsDeclaredAccount ==
    (ConfigComplete /\ LookupSucceeded /\ Ended) =>
        /\ Declared("service_account_role")
        /\ Declared("k8s_namespace")
        /\ Declared("service_account")
        /\ resources["service_account"].name = prefix \o "-service-account"
        /\ resources["k8s_namespace"].name = resources["service_account"].args.namespace
        /\ \E h \in IssuerHosts :
              resources["service_account_role"].args.assume_role_policy =
                  "{\"Version\": \"2012-10-17\", \"Statement\": [{\"Effect\": "
                  \o "\"Allow\", \"Principal\": {\"Federated\": \"arn:"
                  \o cloud.partition \o ":iam::" \o cloud.account_id
                  \o ":oidc-provider/" \o h \o "\"}, "
                  \o "\"Action\": \"sts:AssumeRoleWithWebIdentity\", "
                  \o "\"Condition\": {\"StringEquals\": {\"" \o h \o ":sub\": "
                  \o "\"system:serviceaccount:"
                  \o resources["service_account"].args.namespace \o ":"
                  \o resources["service_account"].name \o "\", \"" \o h
                  \o ":aud\": \"sts.amazonaws.com\"}}}]}"
        /\ "service_account" \in created =>
              live["service_account"].refs.role_arn = live["service_account_role"].arn
====
